---------------------------- MODULE Spec2Model ----------------------------
(***************************************************************************)
(* State-machine model of the Toyota agentic assistant:                    *)
(*   src/agent/agent.py  Agent.answer / Agent.format_tool_details          *)
(*   src/app.py          the Streamlit chat script (one run per user turn) *)
(*   src/tools/tools.py  retrieve, run_sql, get_schema, generate_sql       *)
(*   src/setup_data.py   setup_rag_db, setup_sql_db and the module body    *)
(* Each component has its own group of variables and its own               *)
(* specification; the variables of the other components stay at rest.      *)
(***************************************************************************)
EXTENDS Integers, Sequences, FiniteSets, TLC

VARIABLES
    history,      \* agent: result["messages"] as returned by self.agent.invoke
    aPc,          \* agent: "ready" | "returned" | "raised"
    aOut          \* agent: outcome of Agent.answer (response or the exception)

agentVars == <<history, aPc, aOut>>

VARIABLES
    messages,     \* chat: st.session_state['messages'], the transcript
    uiPc,         \* chat: "idle" (waiting for input) | "thinking" (inside answer)
    prompt,       \* chat: the text of the current turn's input
    response,     \* chat: what Agent.answer returned to the handler
    uiError,      \* chat: the exception shown by st.error, NoError if none
    prevMessages, \* chat: the transcript as it was when the input was submitted
    turns         \* chat: number of inputs submitted in the session

chatVars == <<messages, uiPc, prompt, response, uiError, prevMessages, turns>>

VARIABLES
    store,        \* sql: the tables of the analytical store (the DuckDB file)
    sqlPc,        \* sql: "idle" | "returned" | "raised" (how the last call ended)
    sql_query,    \* sql: the statement generate_sql returned in the last call
    sqlOut,       \* sql: what the last run_sql call returned or raised
    execErr,      \* sql: how con.execute ended in the last call
    conns,        \* sql: the connections the last call opened, in order
    sqlCalls      \* sql: number of run_sql calls made

sqlVars == <<store, sqlPc, sql_query, sqlOut, execErr, conns, sqlCalls>>

VARIABLES
    docs,         \* retrieve: the passages retriever.invoke returned
    rPc,          \* retrieve: "ready" | "returned" | "raised"
    rOut          \* retrieve: the dict the tool returned

retVars == <<docs, rPc, rOut>>

VARIABLES
    csvFiles,     \* setup: the CSV files of the data directory
    db,           \* setup: the tables of the analytical store
    sPc,          \* setup: "idle" | "load" | "at74" | "at75" | "failed"
    stack,        \* setup: number of active setup_sql_db frames
    ragRuns,      \* setup: number of calls of setup_rag_db
    sqlPasses,    \* setup: number of completed CSV load passes
    afterFirst,   \* setup: the tables as they were after the first pass
    scriptRan,    \* setup: the module body of setup_data.py has been executed
    sqlRuns       \* setup: number of outside calls of setup_sql_db

setupVars == <<csvFiles, db, sPc, stack, ragRuns, sqlPasses, afterFirst, scriptRan, sqlRuns>>

vars == <<agentVars, chatVars, sqlVars, retVars, setupVars>>

-----------------------------------------------------------------------------
(* Bounds of the model *)

MaxCalls == 2          \* tool invocations in one message history

MaxTurns == 2          \* user turns in one UI session

MaxSqlCalls == 2       \* run_sql calls in one run

MaxRows == 2           \* rows of a table or of a CSV file

MaxDepth == 2          \* interpreter limit on nested setup_sql_db frames

MaxRuns == 2           \* outside calls of setup_sql_db

-----------------------------------------------------------------------------
(* Agent: message histories (agent.py line 106) *)

NoId == 0

ToolNames == {"retrieve", "run_sql"}

Questions == {"q1", "q2"}

AnswerTexts == {"a1", "a2"}

\* What a tool invocation ends with: a result message holding the JSON
\* encoding of the returned dict, a result message holding the plain-text
\* error string of run_sql, or no result message at all.
ResultKinds == {"json", "sql_error", "missing"}

PlanEntries ==
    { e \in [name : ToolNames, res : ResultKinds] :
        e.res = "sql_error" => e.name = "run_sql" }

Plans == UNION { [1..n -> PlanEntries] : n \in 0..MaxCalls }

\* msg.content of a ToolMessage.  enc = "json": the string json.dumps(val);
\* enc = "text": a string that is not JSON; enc = "list": the Python list []
\* that answer() stores as placeholder.
JsonStr(v) == [enc |-> "json", val |-> v]

PlainText(s) == [enc |-> "text", val |-> [text |-> s]]

EmptyPlaceholder == [enc |-> "list", val |-> [text |-> ""]]

RetrieveValue == [tool |-> "retrieve", context |-> "ctx", sources |-> "srcs"]

SqlValue == [tool |-> "run_sql", query |-> "SELECT", sql_result |-> "rows"]

SqlErrorText == "Error executing SQL: ..."

ToolArgs(name, q) ==
    IF name = "retrieve"
    THEN [question |-> q, doc_type |-> "contracts"]
    ELSE [question |-> q]

ToolContent(e) ==
    IF e.res = "sql_error" THEN PlainText(SqlErrorText)
    ELSE IF e.name = "retrieve" THEN JsonStr(RetrieveValue)
    ELSE JsonStr(SqlValue)

HumanMsg(q) ==
    [type |-> "human", content |-> PlainText(q), tool_calls |-> <<>>, tool_call_id |-> NoId]

AIMsg(text, tcs) ==
    [type |-> "ai", content |-> PlainText(text), tool_calls |-> tcs, tool_call_id |-> NoId]

ToolMsg(id, c) ==
    [type |-> "tool", content |-> c, tool_calls |-> <<>>, tool_call_id |-> id]

TC(plan, q, i) == [id |-> i, name |-> plan[i].name, args |-> ToolArgs(plan[i].name, q)]

RECURSIVE SeqRounds(_, _, _)
\* One AI message per tool call, each followed by its result message (if any).
SeqRounds(plan, q, i) ==
    IF i > Len(plan) THEN <<>>
    ELSE <<AIMsg("", <<TC(plan, q, i)>>)>>
         \o (IF plan[i].res = "missing" THEN <<>> ELSE <<ToolMsg(i, ToolContent(plan[i]))>>)
         \o SeqRounds(plan, q, i + 1)

RECURSIVE ResultMsgs(_, _)
ResultMsgs(plan, i) ==
    IF i > Len(plan) THEN <<>>
    ELSE (IF plan[i].res = "missing" THEN <<>> ELSE <<ToolMsg(i, ToolContent(plan[i]))>>)
         \o ResultMsgs(plan, i + 1)

\* All tool calls in one AI message, followed by their result messages.
ParRound(plan, q) ==
    IF Len(plan) = 0 THEN <<>>
    ELSE <<AIMsg("", [i \in 1..Len(plan) |-> TC(plan, q, i)])>> \o ResultMsgs(plan, 1)

BuildHistory(plan, q, par, ans) ==
    <<HumanMsg(q)>>
    \o (IF par THEN ParRound(plan, q) ELSE SeqRounds(plan, q, 1))
    \o <<AIMsg(ans, <<>>)>>

Histories ==
    { BuildHistory(p, q, par, ans) :
        p \in Plans, q \in Questions, par \in BOOLEAN, ans \in AnswerTexts }

-----------------------------------------------------------------------------
(* Agent.answer and Agent.format_tool_details *)

NoError == "none"

\* json.loads(s): the decoded value of a JSON string; JSONDecodeError on a
\* string that is not JSON; TypeError on an argument that is not a string.
json_loads(c) ==
    IF c.enc = "json" THEN [err |-> NoError, val |-> c.val]
    ELSE IF c.enc = "text" THEN [err |-> "JSONDecodeError", val |-> c.val]
    ELSE [err |-> "TypeError", val |-> c.val]

\* Position of key id in the insertion-ordered dict tool_calls, 0 if absent.
KeyIndex(tcd, id) ==
    IF \E i \in 1..Len(tcd) : tcd[i].id = id
    THEN CHOOSE i \in 1..Len(tcd) : tcd[i].id = id
    ELSE 0

\* tool_calls[tc["id"]] = {"name": ..., "args": ..., "result": []}
PutCall(tcd, tc) ==
    LET entry == [id |-> tc.id, name |-> tc.name, args |-> tc.args, result |-> EmptyPlaceholder]
        k == KeyIndex(tcd, tc.id)
    IN IF k = 0 THEN Append(tcd, entry) ELSE [tcd EXCEPT ![k] = entry]

RECURSIVE PutCalls(_, _, _)
PutCalls(tcd, tcs, j) ==
    IF j > Len(tcs) THEN tcd ELSE PutCalls(PutCall(tcd, tcs[j]), tcs, j + 1)

\* tool_calls[msg.tool_call_id]["result"] = msg.content
PutResult(acc, msg) ==
    LET k == KeyIndex(acc.tcd, msg.tool_call_id)
    IN IF k = 0 THEN [acc EXCEPT !.err = "KeyError"]
       ELSE [acc EXCEPT !.tcd[k].result = msg.content]

RECURSIVE ExtractToolCalls(_, _, _)
\* The loop over result["messages"], answer() lines 111-124.
ExtractToolCalls(msgs, i, acc) ==
    IF i > Len(msgs) \/ acc.err # NoError THEN acc
    ELSE LET msg == msgs[i]
             a1 == IF Len(msg.tool_calls) > 0
                   THEN [acc EXCEPT !.tcd = PutCalls(acc.tcd, msg.tool_calls, 1)]
                   ELSE acc
             a2 == IF msg.tool_call_id # NoId THEN PutResult(a1, msg) ELSE a1
         IN ExtractToolCalls(msgs, i + 1, a2)

\* One block of the trace, or the exception raised while building it.
FormatBlock(call) ==
    LET parsed == json_loads(call.result)
        result == parsed.val
    IN IF parsed.err # NoError THEN [err |-> parsed.err, block |-> <<>>]
       ELSE IF call.name = "retrieve"
       THEN IF {"context", "sources"} \subseteq DOMAIN result
            THEN [err |-> NoError,
                  block |-> <<"Tool name", call.name, "Args", call.args,
                              "Result", result.context, "Sources", result.sources>>]
            ELSE [err |-> "KeyError", block |-> <<>>]
       ELSE IF call.name = "run_sql"
       THEN IF {"query", "sql_result"} \subseteq DOMAIN result
            THEN [err |-> NoError,
                  block |-> <<"Tool name", call.name, "Args", call.args,
                              "Result", result.query, "Output", result.sql_result>>]
            ELSE [err |-> "KeyError", block |-> <<>>]
       ELSE [err |-> "TypeError", block |-> <<>>]   \* str += decoded JSON object

RECURSIVE FormatFrom(_, _, _)
FormatFrom(tcd, i, out) ==
    IF i > Len(tcd) THEN [err |-> NoError, output |-> out]
    ELSE LET b == FormatBlock(tcd[i])
         IN IF b.err # NoError THEN [err |-> b.err, output |-> out]
            ELSE FormatFrom(tcd, i + 1, Append(out, b.block))

format_tool_details(tcd) == FormatFrom(tcd, 1, <<>>)

\* Agent.answer on the message history the framework returned.
answer(msgs) ==
    LET text == msgs[Len(msgs)].content.val.text
        ext == ExtractToolCalls(msgs, 1, [tcd |-> <<>>, err |-> NoError])
    IN IF ext.err # NoError THEN [raised |-> ext.err, response |-> [answer |-> text]]
       ELSE IF Len(ext.tcd) = 0 THEN [raised |-> NoError, response |-> [answer |-> text]]
       ELSE LET f == format_tool_details(ext.tcd)
            IN IF f.err # NoError
               THEN [raised |-> f.err, response |-> [answer |-> text]]
               ELSE [raised |-> NoError,
                     response |-> [answer |-> text, tools |-> f.output]]

AgentInit ==
    /\ history \in Histories
    /\ aPc = "ready"
    /\ aOut = [raised |-> NoError, response |-> [answer |-> ""]]

AgentRest ==
    /\ history = <<>>
    /\ aPc = "off"
    /\ aOut = [raised |-> NoError, response |-> [answer |-> ""]]

-----------------------------------------------------------------------------
(* Chat UI: app.py *)

UserEntry(p) == [role |-> "user", content |-> p]

\* SaveResponse as it would be if the trace were dropped when saving.
SaveResponseNoTrace(msgs, resp) ==
    Append(msgs, [role |-> "assistant", content |-> resp.answer])

\* Lines 48-63: the assistant entry, with the trace if the response has one.
SaveResponse(msgs, resp) ==
    IF "tools" \in DOMAIN resp
    THEN Append(msgs, [role |-> "assistant", content |-> resp.answer, tools |-> resp.tools])
    ELSE Append(msgs, [role |-> "assistant", content |-> resp.answer])

\* OnException as it would be if the error were persisted as a turn.
OnExceptionPersisted(msgs, e) == Append(msgs, [role |-> "assistant", content |-> e])

\* Lines 68-69: st.error(...) only, the transcript is not touched.
OnException(msgs, e) == msgs

\* Failures of self.agent.invoke itself (network, auth, rate limit, a tool
\* that raised): not caught inside Agent.answer.
InvokeFailures == {"APIError"}

\* The message histories the framework can return for a question.
HistoriesFor(q) ==
    { BuildHistory(p, q, par, ans) : p \in Plans, par \in BOOLEAN, ans \in AnswerTexts }

ChatInit ==
    /\ messages = <<>>
    /\ uiPc = "idle"
    /\ prompt = ""
    /\ response = [answer |-> ""]
    /\ uiError = NoError
    /\ prevMessages = <<>>
    /\ turns = 0

ChatRest ==
    /\ messages = <<>>
    /\ uiPc = "off"
    /\ prompt = ""
    /\ response = [answer |-> ""]
    /\ uiError = NoError
    /\ prevMessages = <<>>
    /\ turns = 0

SubmitInput(p) ==
    /\ uiPc = "idle"
    /\ turns < MaxTurns
    /\ prevMessages' = messages
    /\ messages' = Append(messages, UserEntry(p))
    /\ prompt' = p
    /\ uiError' = NoError
    /\ uiPc' = "thinking"
    /\ turns' = turns + 1
    /\ UNCHANGED response
    /\ UNCHANGED <<agentVars, sqlVars, retVars, setupVars>>

\* Lines 44-66: answer returned, the response is saved and the script reruns.
AnswerReturned ==
    /\ uiPc = "thinking"
    /\ \E h \in HistoriesFor(prompt) :
          /\ answer(h).raised = NoError
          /\ response' = answer(h).response
          /\ messages' = SaveResponse(messages, answer(h).response)
    /\ uiPc' = "idle"
    /\ UNCHANGED <<prompt, uiError, prevMessages, turns>>
    /\ UNCHANGED <<agentVars, sqlVars, retVars, setupVars>>

\* Lines 44, 68-69: answer raised, either in invoke or in its own formatting.
AnswerFailed ==
    /\ uiPc = "thinking"
    /\ \E e \in (InvokeFailures \cup { answer(h).raised : h \in HistoriesFor(prompt) }) \ {NoError} :
          /\ uiError' = e
          /\ messages' = OnException(messages, e)
    /\ uiPc' = "idle"
    /\ UNCHANGED <<prompt, response, prevMessages, turns>>
    /\ UNCHANGED <<agentVars, sqlVars, retVars, setupVars>>

ChatNext ==
    \/ \E p \in Questions : SubmitInput(p)
    \/ AnswerReturned
    \/ AnswerFailed

-----------------------------------------------------------------------------
(* SQL tool: tools.py run_sql, get_schema, generate_sql *)

Tables == {"sales", "DIM_model"}

Schemas == {"s1", "s2"}

Absent == [present |-> FALSE, schema |-> "", rows |-> 0]

TableVals == {Absent} \cup [present : {TRUE}, schema : Schemas, rows : 0..MaxRows]

Stores == [Tables -> TableVals]

\* The text the SQL generator returns: nothing restricts it to SELECT.
Statements ==
    [op : {"SELECT", "INSERT", "DELETE", "DROP", "CREATE"}, table : Tables]
    \cup {[op |-> "garbage", table |-> "sales"]}

NoStmt == [op |-> "", table |-> ""]

NoRows == [n |-> 0, schema |-> ""]

\* Where a call can fail outside con.execute.
Faults == {"none", "schema_connect", "schema_query", "llm", "exec_connect"}

\* read_only as it would be if the connection were opened with the default mode.
read_write == FALSE

\* Line 66: duckdb.connect(DUCKDB_PATH, read_only=True)
read_only == TRUE

\* con.execute(stmt) on a connection opened with the given mode: the error
\* raised (NoError if none), the rows returned and the store afterwards.
Execute(st, stmt, ro) ==
    LET t == stmt.table
        fail(e) == [err |-> e, rows |-> NoRows, store |-> st]
    IN IF stmt.op = "garbage" THEN fail("ParserException")
       ELSE IF stmt.op = "SELECT"
       THEN IF st[t].present
            THEN [err |-> NoError, rows |-> [n |-> st[t].rows, schema |-> st[t].schema], store |-> st]
            ELSE fail("CatalogException")
       ELSE IF ro THEN fail("InvalidInputException")
       ELSE IF stmt.op = "CREATE"
       THEN IF st[t].present THEN fail("CatalogException")
            ELSE [err |-> NoError, rows |-> NoRows,
                  store |-> [st EXCEPT ![t] = [present |-> TRUE, schema |-> "s1", rows |-> 0]]]
       ELSE IF ~st[t].present THEN fail("CatalogException")
       ELSE IF stmt.op = "INSERT"
       THEN [err |-> NoError, rows |-> NoRows, store |-> [st EXCEPT ![t].rows = @ + 1]]
       ELSE IF stmt.op = "DELETE"
       THEN [err |-> NoError, rows |-> NoRows, store |-> [st EXCEPT ![t].rows = 0]]
       ELSE [err |-> NoError, rows |-> NoRows, store |-> [st EXCEPT ![t] = Absent]]

Conn(by, isOpen) == [by |-> by, open |-> isOpen]

\* get_schema(): opens its own connection at line 85 and closes it at line
\* 113, which a failing catalog query never reaches.
get_schema(st, fault) ==
    IF fault = "schema_connect"
    THEN [raised |-> "IOException", conns |-> <<>>, schema |-> {}]
    ELSE IF fault = "schema_query"
    THEN [raised |-> "Error", conns |-> <<Conn("get_schema", TRUE)>>, schema |-> {}]
    ELSE [raised |-> NoError,
          conns |-> <<Conn("get_schema", FALSE)>>,
          schema |-> { [table |-> t, columns |-> st[t].schema,
                        values |-> (t = "DIM_model")] : t \in { u \in Tables : st[u].present } }]

\* generate_sql(question): the schema, then the chat model's reply verbatim.
generate_sql(st, fault, reply) ==
    LET sch == get_schema(st, fault)
    IN IF sch.raised # NoError THEN [raised |-> sch.raised, conns |-> sch.conns, sql |-> NoStmt]
       ELSE IF fault = "llm" THEN [raised |-> "APIError", conns |-> sch.conns, sql |-> NoStmt]
       ELSE [raised |-> NoError, conns |-> sch.conns, sql |-> reply]

\* OnExecuteError as it would be without the except clause.
OnExecuteErrorReraised(e) ==
    [kind |-> "exception", query |-> NoStmt, sql_result |-> NoRows, text |-> <<e>>]

\* Lines 70-71: except Exception as e: return f"Error executing SQL: {e}"
OnExecuteError(e) ==
    [kind |-> "text", query |-> NoStmt, sql_result |-> NoRows, text |-> <<SqlErrorText, e>>]

Raised(e) == [kind |-> "exception", query |-> NoStmt, sql_result |-> NoRows, text |-> <<e>>]

NoOut == [kind |-> "", query |-> NoStmt, sql_result |-> NoRows, text |-> <<>>]

\* run_sql(question) as a whole, lines 63-74.
run_sql(st, fault, reply) ==
    LET g == generate_sql(st, fault, reply)
        ex == Execute(st, g.sql, read_only)
    IN IF g.raised # NoError
       THEN [out |-> Raised(g.raised), sql |-> g.sql, execErr |-> "not_run",
             conns |-> g.conns, store |-> st]
       ELSE IF fault = "exec_connect"
       THEN [out |-> Raised("IOException"), sql |-> g.sql, execErr |-> "not_run",
             conns |-> g.conns, store |-> st]
       ELSE [out |-> IF ex.err # NoError
                     THEN OnExecuteError(ex.err)
                     ELSE [kind |-> "dict", query |-> g.sql, sql_result |-> ex.rows, text |-> <<>>],
             sql |-> g.sql, execErr |-> ex.err,
             conns |-> g.conns \o <<Conn("run_sql", FALSE)>>,   \* finally: con.close()
             store |-> ex.store]

SqlInit ==
    /\ store \in Stores
    /\ sqlPc = "idle"
    /\ sql_query = NoStmt
    /\ sqlOut = NoOut
    /\ execErr = "not_run"
    /\ conns = <<>>
    /\ sqlCalls = 0

SqlRest ==
    /\ store = [t \in Tables |-> Absent]
    /\ sqlPc = "off"
    /\ sql_query = NoStmt
    /\ sqlOut = NoOut
    /\ execErr = "not_run"
    /\ conns = <<>>
    /\ sqlCalls = 0

RunSqlEffect(r) ==
    /\ sqlOut' = r.out
    /\ sql_query' = r.sql
    /\ execErr' = r.execErr
    /\ conns' = r.conns
    /\ store' = r.store
    /\ sqlCalls' = sqlCalls + 1
    /\ UNCHANGED <<agentVars, chatVars, retVars, setupVars>>

RunSqlReturns ==
    /\ sqlPc \in {"idle", "returned", "raised"}
    /\ sqlCalls < MaxSqlCalls
    /\ \E fault \in Faults, reply \in Statements :
          /\ run_sql(store, fault, reply).out.kind # "exception"
          /\ RunSqlEffect(run_sql(store, fault, reply))
    /\ sqlPc' = "returned"

RunSqlRaises ==
    /\ sqlPc \in {"idle", "returned", "raised"}
    /\ sqlCalls < MaxSqlCalls
    /\ \E fault \in Faults, reply \in Statements :
          /\ run_sql(store, fault, reply).out.kind = "exception"
          /\ RunSqlEffect(run_sql(store, fault, reply))
    /\ sqlPc' = "raised"

SqlNext == RunSqlReturns \/ RunSqlRaises

-----------------------------------------------------------------------------
(* Retrieval tool: tools.py retrieve *)

\* Line 32: search_kwargs={"k": 3, ...}
K == 3

\* Passage texts, as sequences of characters.
Passages == {<<"a">>, <<"b">>, <<"a", "b">>}

\* doc.metadata, with or without a "source" key.
Metadatas == {[source |-> "s1"], [source |-> "s2"], [page |-> "1"]}

Docs == [page_content : Passages, metadata : Metadatas]

DocLists == UNION { [1..n -> Docs] : n \in 0..K }

Separator == <<"\n", "\n">>

RECURSIVE DedupFrom(_, _, _, _)
\* Lines 38-43: the loop over docs with the set retrieved_docs.
DedupFrom(ds, i, unique, retrieved) ==
    IF i > Len(ds) THEN unique
    ELSE IF ds[i].page_content \notin retrieved
         THEN DedupFrom(ds, i + 1, Append(unique, ds[i]), retrieved \cup {ds[i].page_content})
         ELSE DedupFrom(ds, i + 1, unique, retrieved)

\* unique_docs as it would be if the membership test never matched.
unique_docs_keep_all(ds) == ds

unique_docs(ds) == DedupFrom(ds, 1, <<>>, {})

RECURSIVE Join(_, _)
\* sep.join(parts)
Join(parts, sep) ==
    IF Len(parts) = 0 THEN <<>>
    ELSE IF Len(parts) = 1 THEN parts[1]
    ELSE parts[1] \o sep \o Join(Tail(parts), sep)

\* doc.metadata.get("source", "Unknown")
MetaSource(md) == IF "source" \in DOMAIN md THEN md.source ELSE "Unknown"

\* list(set(sources)): the distinct sources in any order.
SourceLists(srcs) ==
    LET S == { srcs[i] : i \in 1..Len(srcs) }
    IN { l \in [1..Cardinality(S) -> S] : { l[i] : i \in 1..Cardinality(S) } = S }

RetInit ==
    /\ docs \in DocLists
    /\ rPc = "ready"
    /\ rOut = [context |-> <<>>, sources |-> <<>>]

RetRest ==
    /\ docs = <<>>
    /\ rPc = "off"
    /\ rOut = [context |-> <<>>, sources |-> <<>>]

\* Lines 37-49.
Retrieve ==
    /\ rPc = "ready"
    /\ LET u == unique_docs(docs)
           context == Join([i \in 1..Len(u) |-> u[i].page_content], Separator)
           sources == [i \in 1..Len(u) |-> MetaSource(u[i].metadata)]
       IN \E l \in SourceLists(sources) : rOut' = [context |-> context, sources |-> l]
    /\ rPc' = "returned"
    /\ UNCHANGED docs
    /\ UNCHANGED <<agentVars, chatVars, sqlVars, setupVars>>

\* Lines 26-35: the index or the embedding endpoint is unreachable.
RetrieveRaises ==
    /\ rPc = "ready"
    /\ rPc' = "raised"
    /\ UNCHANGED <<docs, rOut>>
    /\ UNCHANGED <<agentVars, chatVars, sqlVars, setupVars>>

RetNext == Retrieve \/ RetrieveRaises

-----------------------------------------------------------------------------
(* Data setup: setup_data.py *)

\* LoadTable as it would be with CREATE TABLE IF NOT EXISTS followed by INSERT.
LoadTableAppend(d, t, f) ==
    [d EXCEPT ![t] = [present |-> TRUE, schema |-> f.schema,
                      rows |-> (IF d[t].present THEN d[t].rows ELSE 0) + f.rows]]

\* CREATE OR REPLACE TABLE t AS SELECT * FROM read_csv_auto(file), line 66.
LoadTable(d, t, f) ==
    [d EXCEPT ![t] = [present |-> TRUE, schema |-> f.schema, rows |-> f.rows]]

RECURSIVE LoadFiles(_, _, _)
\* The loop of lines 59-66 over the files found by glob.
LoadFiles(d, files, todo) ==
    IF todo = {} THEN d
    ELSE LET t == CHOOSE x \in todo : TRUE
         IN LoadFiles(LoadTable(d, t, files[t]), files, todo \ {t})

CsvNames(files) == { t \in Tables : files[t].present }

SetupInit ==
    /\ csvFiles \in Stores
    /\ db \in Stores
    /\ sPc = "idle"
    /\ stack = 0
    /\ ragRuns = 0
    /\ sqlPasses = 0
    /\ afterFirst = db
    /\ scriptRan = FALSE
    /\ sqlRuns = 0

SetupRest ==
    /\ csvFiles = [t \in Tables |-> Absent]
    /\ db = [t \in Tables |-> Absent]
    /\ sPc = "off"
    /\ stack = 0
    /\ ragRuns = 0
    /\ sqlPasses = 0
    /\ afterFirst = [t \in Tables |-> Absent]
    /\ scriptRan = FALSE
    /\ sqlRuns = 0

\* python setup_data.py: the module body defines the two functions; lines
\* 74-75 are indented into setup_sql_db, so the body calls neither.
RunScript ==
    /\ sPc \in {"idle", "failed"}
    /\ ~scriptRan
    /\ scriptRan' = TRUE
    /\ UNCHANGED <<csvFiles, db, sPc, stack, ragRuns, sqlPasses, afterFirst, sqlRuns>>
    /\ UNCHANGED <<agentVars, chatVars, sqlVars, retVars>>

\* setup_sql_db() called from outside the module.
CallSetupSqlDb ==
    /\ sPc \in {"idle", "failed"}
    /\ sqlRuns < MaxRuns
    /\ sqlRuns' = sqlRuns + 1
    /\ stack' = 1
    /\ sPc' = "load"
    /\ UNCHANGED <<csvFiles, db, ragRuns, sqlPasses, afterFirst, scriptRan>>
    /\ UNCHANGED <<agentVars, chatVars, sqlVars, retVars>>

\* Lines 56-72 of the innermost frame.
LoadCsvFiles ==
    /\ sPc = "load"
    /\ db' = LoadFiles(db, csvFiles, CsvNames(csvFiles))
    /\ sqlPasses' = sqlPasses + 1
    /\ afterFirst' = IF sqlPasses = 0 THEN db' ELSE afterFirst
    /\ sPc' = "at74"
    /\ UNCHANGED <<csvFiles, stack, ragRuns, scriptRan, sqlRuns>>
    /\ UNCHANGED <<agentVars, chatVars, sqlVars, retVars>>

\* Line 74: setup_rag_db() returns.
RagReturns ==
    /\ sPc = "at74"
    /\ ragRuns' = ragRuns + 1
    /\ sPc' = "at75"
    /\ UNCHANGED <<csvFiles, db, stack, sqlPasses, afterFirst, scriptRan, sqlRuns>>
    /\ UNCHANGED <<agentVars, chatVars, sqlVars, retVars>>

\* Line 74: setup_rag_db() raises (PDF, embedding or index failure); the
\* exception unwinds every frame.
RagRaises ==
    /\ sPc = "at74"
    /\ ragRuns' = ragRuns + 1
    /\ sPc' = "failed"
    /\ stack' = 0
    /\ UNCHANGED <<csvFiles, db, sqlPasses, afterFirst, scriptRan, sqlRuns>>
    /\ UNCHANGED <<agentVars, chatVars, sqlVars, retVars>>

\* Line 75: setup_sql_db() calls itself.
Recurse ==
    /\ sPc = "at75"
    /\ stack < MaxDepth
    /\ stack' = stack + 1
    /\ sPc' = "load"
    /\ UNCHANGED <<csvFiles, db, ragRuns, sqlPasses, afterFirst, scriptRan, sqlRuns>>
    /\ UNCHANGED <<agentVars, chatVars, sqlVars, retVars>>

\* Line 75 at the interpreter's frame limit: RecursionError unwinds all.
RecursionError ==
    /\ sPc = "at75"
    /\ stack >= MaxDepth
    /\ stack' = 0
    /\ sPc' = "failed"
    /\ UNCHANGED <<csvFiles, db, ragRuns, sqlPasses, afterFirst, scriptRan, sqlRuns>>
    /\ UNCHANGED <<agentVars, chatVars, sqlVars, retVars>>

SetupNext ==
    \/ RunScript
    \/ CallSetupSqlDb
    \/ LoadCsvFiles
    \/ RagReturns
    \/ RagRaises
    \/ Recurse
    \/ RecursionError

-----------------------------------------------------------------------------
(* Agent actions and the specifications *)

AnswerReturns ==
    /\ aPc = "ready"
    /\ answer(history).raised = NoError
    /\ aPc' = "returned"
    /\ aOut' = answer(history)
    /\ UNCHANGED history
    /\ UNCHANGED <<chatVars, sqlVars, retVars, setupVars>>

AnswerRaises ==
    /\ aPc = "ready"
    /\ answer(history).raised # NoError
    /\ aPc' = "raised"
    /\ aOut' = answer(history)
    /\ UNCHANGED history
    /\ UNCHANGED <<chatVars, sqlVars, retVars, setupVars>>

AgentNext == AnswerReturns \/ AnswerRaises

InitAgent == AgentInit /\ ChatRest /\ SqlRest /\ RetRest /\ SetupRest

SpecAgent == InitAgent /\ [][AgentNext]_vars

InitChat == AgentRest /\ ChatInit /\ SqlRest /\ RetRest /\ SetupRest

SpecChat == InitChat /\ [][ChatNext]_vars

InitSql == AgentRest /\ ChatRest /\ SqlInit /\ RetRest /\ SetupRest

SpecSql == InitSql /\ [][SqlNext]_vars

InitRetrieve == AgentRest /\ ChatRest /\ SqlRest /\ RetInit /\ SetupRest

SpecRetrieve == InitRetrieve /\ [][RetNext]_vars

InitSetup == AgentRest /\ ChatRest /\ SqlRest /\ RetRest /\ SetupInit

SpecSetup == InitSetup /\ [][SetupNext]_vars

-----------------------------------------------------------------------------
(* Properties: Agent *)

CallIds(h) == UNION { { h[i].tool_calls[j].id : j \in 1..Len(h[i].tool_calls) } : i \in 1..Len(h) }

ResultIds(h) == { h[i].tool_call_id : i \in 1..Len(h) } \ {NoId}

ErrorResults(h) == { i \in 1..Len(h) : h[i].type = "tool" /\ h[i].content.enc = "text" }

FinalText(h) == h[Len(h)].content.val.text

\* answer returned the final text and a trace with one block per invocation.
ReturnedWithTrace ==
    /\ aPc = "returned"
    /\ aOut.raised = NoError
    /\ aOut.response.answer = FinalText(history)
    /\ CallIds(history) # {} =>
          /\ "tools" \in DOMAIN aOut.response
          /\ Len(aOut.response.tools) = Cardinality(CallIds(history))

\* C1: for every history in which each tool call is followed by its result
\* message (a run_sql result being the JSON record or the plain-text error
\* string), Agent.answer does not raise and returns the final answer text
\* with, when a tool was invoked, a trace of one block per invocation.
C1Claim ==
    (aPc \in {"returned", "raised"} /\ CallIds(history) \subseteq ResultIds(history))
        => ReturnedWithTrace

\* C2: if a recorded tool call never receives a result message (the results
\* that did arrive being well-formed), answer raises nothing and returns its
\* response with the answer and the trace.
C2Claim ==
    (/\ aPc \in {"returned", "raised"}
     /\ ~(CallIds(history) \subseteq ResultIds(history))
     /\ ErrorResults(history) = {})
        => ReturnedWithTrace

-----------------------------------------------------------------------------
(* Properties: Chat UI *)

FailedTurn == uiPc = "idle" /\ uiError # NoError

\* C3 as stated: after a turn in which answer raised, the transcript equals
\* the transcript before the input was submitted.
C3Original == FailedTurn => messages = prevMessages

\* C3 amended: after a turn in which answer raised, the transcript is the
\* transcript before the input was submitted plus the user entry of that
\* turn; no assistant or error entry is added.
C3Amended == FailedTurn => messages = Append(prevMessages, UserEntry(prompt))

C3Witness == FailedTurn /\ Len(prevMessages) > 0 /\ turns = 2

AssistantFollowsUser ==
    \A i \in 1..Len(messages) :
        messages[i].role = "assistant" => (i > 1 /\ messages[i - 1].role = "user")

\* One step of the transcript: unchanged, or the user entry of a new turn
\* appended, or the assistant entry appended right after the user entry of
\* the turn in progress, with a trace exactly when the response has one.
TranscriptStep ==
    \/ messages' = messages
    \/ /\ uiPc = "idle"
       /\ messages' = Append(messages, UserEntry(prompt'))
    \/ /\ uiPc = "thinking"
       /\ Len(messages) > 0
       /\ messages[Len(messages)] = UserEntry(prompt)
       /\ Len(messages') = Len(messages) + 1
       /\ SubSeq(messages', 1, Len(messages)) = messages
       /\ LET e == messages'[Len(messages')]
          IN /\ e.role = "assistant"
             /\ e.content = response'.answer
             /\ ("tools" \in DOMAIN e) <=> ("tools" \in DOMAIN response')
             /\ ("tools" \in DOMAIN e) => e.tools = response'.tools

\* C8: the transcript is append-only, a turn appends the user entry and then
\* the assistant entry, every assistant entry directly follows the user
\* entry of its turn, and an assistant entry carries a tool trace exactly
\* when Agent.answer returned one.
C8Theorem == [](AssistantFollowsUser) /\ [][TranscriptStep]_vars

C8Witness ==
    /\ Len(messages) = 4
    /\ "tools" \in DOMAIN messages[2]
    /\ "tools" \notin DOMAIN messages[4]
    /\ messages[4].role = "assistant"

-----------------------------------------------------------------------------
(* Properties: SQL tool *)

ExecutionFailed == sqlPc \in {"returned", "raised"} /\ execErr \notin {"not_run", NoError}

ExecutionSucceeded == sqlPc \in {"returned", "raised"} /\ execErr = NoError

\* C4: when the execution of the generated statement fails, run_sql returns
\* a plain-text error message and does not raise; when it succeeds, run_sql
\* returns the record of the generated statement and the result rows.
C4Theorem ==
    /\ ExecutionFailed =>
          /\ sqlPc = "returned"
          /\ sqlOut.kind = "text"
          /\ sqlOut.text[1] = SqlErrorText
    /\ ExecutionSucceeded =>
          /\ sqlPc = "returned"
          /\ sqlOut.kind = "dict"
          /\ sqlOut.query = sql_query
          /\ sqlOut.sql_result = [n |-> store[sql_query.table].rows,
                                  schema |-> store[sql_query.table].schema]

C4Witness == ExecutionFailed /\ sql_query.op = "SELECT" /\ sqlOut.kind = "text"

\* C5: on every exit path a run_sql call has opened exactly one connection
\* and has left none of the connections it opened open.
C5Claim ==
    sqlPc \in {"returned", "raised"} =>
        /\ Len(conns) = 1
        /\ \A i \in 1..Len(conns) : ~conns[i].open

\* C6: whatever statement the generator returns, a run_sql call leaves the
\* contents and the schema of the analytical store unchanged.
C6Theorem == [][store' = store]_vars

C6Witness ==
    /\ sqlPc = "returned"
    /\ sql_query.op \in {"INSERT", "DELETE", "DROP"}
    /\ store[sql_query.table].present
    /\ sqlCalls = 2

-----------------------------------------------------------------------------
(* Properties: retrieval tool *)

RECURSIVE SplitFrom(_, _, _, _)
\* s.split("\n\n")
SplitFrom(s, i, cur, out) ==
    IF i > Len(s) THEN Append(out, cur)
    ELSE IF i < Len(s) /\ s[i] = "\n" /\ s[i + 1] = "\n"
         THEN SplitFrom(s, i + 2, <<>>, Append(out, cur))
         ELSE SplitFrom(s, i + 1, Append(cur, s[i]), out)

ContextParts == IF rOut.context = <<>> THEN <<>> ELSE SplitFrom(rOut.context, 1, <<>>, <<>>)

FirstIndex(text) == CHOOSE i \in 1..Len(docs) :
    /\ docs[i].page_content = text
    /\ \A j \in 1..(i - 1) : docs[j].page_content # text

\* C7: the context holds the text of every returned passage exactly once,
\* also when several passages have the same text, in the order of the
\* passages' first occurrences.
C7Theorem ==
    rPc = "returned" =>
        LET parts == ContextParts
        IN /\ \A i \in 1..Len(docs) :
                 Cardinality({ k \in 1..Len(parts) : parts[k] = docs[i].page_content }) = 1
           /\ \A k \in 1..Len(parts) : \E i \in 1..Len(docs) : docs[i].page_content = parts[k]
           /\ \A k, l \in 1..Len(parts) : k < l => FirstIndex(parts[k]) < FirstIndex(parts[l])

C7Witness ==
    /\ rPc = "returned"
    /\ Len(docs) = 3
    /\ docs[1].page_content = docs[3].page_content
    /\ docs[1].page_content # docs[2].page_content
    /\ Len(ContextParts) = 2

-----------------------------------------------------------------------------
(* Properties: data setup *)

\* C9: once the CSV files have been loaded, loading the same files again
\* leaves every table's presence, schema and row count as they were after
\* the first load.
C9Theorem ==
    sqlPasses >= 2 =>
        \A t \in Tables :
            /\ db[t].present = afterFirst[t].present
            /\ db[t].schema = afterFirst[t].schema
            /\ db[t].rows = afterFirst[t].rows

C9Witness ==
    /\ sqlPasses >= 2
    /\ \E t \in Tables : csvFiles[t].present /\ csvFiles[t].rows > 0
    /\ \E t \in Tables : ~csvFiles[t].present /\ db[t].present

\* C10: a call of setup_sql_db loads the CSV files once and returns, calling
\* neither setup_rag_db nor itself, and running the script runs each of the
\* two procedures exactly once.
C10Claim ==
    /\ stack <= 1
    /\ sqlPasses <= sqlRuns
    /\ ~scriptRan => ragRuns = 0
    /\ scriptRan => (ragRuns = 1 /\ sqlPasses = 1)

=============================================================================
